---- MODULE Spec2Model ----
(***************************************************************************)
(* A model of lib/statsd.js, the UDP client for StatsD: the constructor,   *)
(* the typed operations, sendAll (argument shifting and the fan-out over   *)
(* an array of stat names with its onSend closure) and send (sampling,     *)
(* line encoding, mock short-circuit, hand-off to the socket), the DNS     *)
(* lookup the constructor may start, and close.                            *)
(*                                                                         *)
(* JavaScript values are records tagged by kind.  Numbers are held in      *)
(* tenths, so that sample rates and random draws below 1 are exact.        *)
(* Strings are sequences of tokens, so that concatenation is \o.           *)
(***************************************************************************)
EXTENDS Integers, Sequences, FiniteSets, TLC

VARIABLES
  client,    \* the Client object: host, port, prefix, suffix, mock
  given,     \* how the client was constructed: the form and the values given
  sent,      \* the datagrams handed to socket.send, in the order handed
  batches,   \* one sendAll activation per typed call: the closure's variables
  invoked,   \* the invocations of the callers' callbacks, in order
  trace,     \* one entry per activation of send: its arguments and outcome
  lookup,    \* the dns.lookup the constructor started, if any, and its answer
  socket     \* the socket handle: whether closed, and how it answers if closed

vars == <<client, given, sent, batches, invoked, trace, lookup, socket>>

-----------------------------------------------------------------------------
(* JavaScript values *)

Undef == [k |-> "undefined"]

Null == [k |-> "null"]

NaN == [k |-> "nan"]

Num(t) == [k |-> "number", n |-> t]

Whole(i) == Num(i * 10)

Str(s) == [k |-> "string", s |-> s]

Bool(b) == [k |-> "boolean", b |-> b]

Arr(a) == [k |-> "array", a |-> a]

Fn(f) == [k |-> "function", f |-> f]

Obj(o) == [k |-> "object", o |-> o]

\* typeof v === 'number'
IsNumber(v) == v.k \in {"number", "nan"}

\* typeof v === 'string'
IsString(v) == v.k = "string"

\* typeof v === 'function'
IsFunction(v) == v.k = "function"

\* no value passing for an array
IsArrayNever(v) == FALSE

\* Array.isArray(v)
IsArray(v) == v.k = "array"

\* ToBoolean: what `if (v)`, `v && ...` and `v || ...` test
Truthy(v) ==
  CASE v.k = "undefined" -> FALSE
    [] v.k = "null" -> FALSE
    [] v.k = "nan" -> FALSE
    [] v.k = "number" -> v.n # 0
    [] v.k = "string" -> v.s # <<>>
    [] v.k = "boolean" -> v.b
    [] OTHER -> TRUE

\* a || b
Or(a, b) == IF Truthy(a) THEN a ELSE b

\* unary minus: -v
Neg(v) == IF v.k = "number" THEN Num(0 - v.n) ELSE NaN

\* a === b on the values of the model
StrictEq(a, b) == a = b /\ a.k # "nan"

\* the i-th actual argument of a call, undefined when not passed
Arg(args, i) == IF i <= Len(args) THEN args[i] ELSE Undef

\* options.name on an options value
Get(options, name) ==
  IF options.k = "object" /\ name \in DOMAIN options.o
    THEN options.o[name]
    ELSE Undef

Abs(t) == IF t < 0 THEN 0 - t ELSE t

\* String(number): the decimal numeral of a number held in tenths
NumStr(t) ==
  (IF t < 0 THEN <<"-">> ELSE <<>>)
    \o <<ToString(Abs(t) \div 10)>>
    \o (IF Abs(t) % 10 = 0 THEN <<>> ELSE <<".", ToString(Abs(t) % 10)>>)

\* '' + v: the string a value contributes to a concatenation
ToStr(v) ==
  CASE v.k = "number" -> NumStr(v.n)
    [] v.k = "string" -> v.s
    [] v.k = "undefined" -> <<"undefined">>
    [] v.k = "null" -> <<"null">>
    [] v.k = "nan" -> <<"NaN">>
    [] v.k = "boolean" -> IF v.b THEN <<"true">> ELSE <<"false">>
    [] OTHER -> <<"[", v.k, "]">>

\* a.join(','): the elements' strings with "," between them
RECURSIVE Join(_)
Join(a) ==
  IF a = <<>> THEN <<>>
  ELSE IF Len(a) = 1 THEN ToStr(a[1])
  ELSE ToStr(a[1]) \o <<",">> \o Join(Tail(a))

-----------------------------------------------------------------------------
(* The constructor *)

\* the options record the positional form builds (lines 23-31)
PositionalOptions(args) ==
  Obj([host      |-> Arg(args, 1),
       port      |-> Arg(args, 2),
       prefix    |-> Arg(args, 3),
       suffix    |-> Arg(args, 4),
       globalize |-> Arg(args, 5),
       cacheDns  |-> Arg(args, 6),
       mock      |-> Bool(StrictEq(Arg(args, 7), Bool(TRUE)))])

\* the options the constructor reads its fields from (lines 19-32)
Options(args) ==
  IF Len(args) > 1 \/ IsString(Arg(args, 1))
    THEN PositionalOptions(args)
    ELSE Or(Arg(args, 1), Obj(<<>>))

\* this.mock = options.mock (line 39)
ClientMock(options) == Get(options, "mock")

\* new Client(...args): the fields set at lines 34-39
Client(args) ==
  LET options == Options(args)
  IN [host   |-> Or(Get(options, "host"), Str(<<"localhost">>)),
      port   |-> Or(Get(options, "port"), Whole(8125)),
      prefix |-> Or(Get(options, "prefix"), Str(<<>>)),
      suffix |-> Or(Get(options, "suffix"), Str(<<>>)),
      mock   |-> ClientMock(options)]

\* no lookup was started
NoLookup == [state |-> "none", name |-> Undef, started |-> 0, address |-> Undef]

\* options.cacheDns === true (line 41)
CacheDns(options) == StrictEq(Get(options, "cacheDns"), Bool(TRUE))

\* dns.lookup(options.host, ...) started by the constructor when caching is
\* asked for (lines 41-42)
Lookup(args) ==
  LET options == Options(args)
  IN IF CacheDns(options)
       THEN [state |-> "pending", name |-> Get(options, "host"),
             started |-> 1, address |-> Undef]
       ELSE NoLookup

\* the lookup's callback taking every answer for an address
LookupOkAlways(err) == TRUE

\* err == null (line 43)
LookupOk(err) == err.k \in {"null", "undefined"}

\* the callback of dns.lookup (lines 42-46): function(err, address, family)
OnLookup(c, err, address) ==
  IF LookupOk(err) THEN [c EXCEPT !.host = address] ELSE c

-----------------------------------------------------------------------------
(* Callbacks and the onSend closure *)

\* the onSend function of the b-th sendAll activation (line 158)
OnSendOf(b) == [k |-> "function", f |-> "onSend", b |-> b]

IsOnSend(cb) == IsFunction(cb) /\ cb.f = "onSend"

\* sentBytes = bytes in place of sentBytes += bytes
PlusLast(a, b) == b

\* a + b on two byte counts (line 169); anything else added gives NaN
Plus(a, b) == IF a.k = "number" /\ b.k = "number" THEN Num(a.n + b.n) ELSE NaN

\* a call of a caller's function: recorded with the arguments it received and
\* the number of sends its call had made by then
CallUser(st, b, cb, error, bytes) ==
  [st EXCEPT !.invoked =
     Append(@, [call |-> b, f |-> cb.f, error |-> error, bytes |-> bytes,
                at |-> Cardinality({e \in 1..Len(st.trace) :
                                      st.trace[e].call = b})])]

\* onSend without its calledback flag
OnSendSilentNoFlag(batch) == ~IsFunction(batch.callback)

\* the test that lets onSend report at all (line 160)
OnSendSilent(batch) == batch.calledback \/ ~IsFunction(batch.callback)

\* onSend taking every completion for a success
FailedNever(error) == FALSE

\* if (error) (line 164)
Failed(error) == Truthy(error)

\* onSend reporting the batch as done one completion early
OnSendMostDone(completed, stat) == completed >= Len(stat.a) - 1

\* onSend reporting the batch as done at every completion
OnSendAnyDone(completed, stat) == completed >= 1

\* the test that reports the whole batch as done (line 170)
OnSendAllDone(completed, stat) == completed = Len(stat.a)

\* onSend(error, bytes) of the b-th activation (lines 158-173)
OnSend(st, b, error, bytes) ==
  LET completed == st.batches[b].completed + 1
      st1 == [st EXCEPT !.batches[b].completed = completed]
      batch == st1.batches[b]
  IN IF OnSendSilent(batch) THEN st1
     ELSE IF Failed(error)
       THEN CallUser([st1 EXCEPT !.batches[b].calledback = TRUE],
                     b, batch.callback, error, Undef)
     ELSE LET sentBytes == Plus(batch.sentBytes, bytes)
              st2 == [st1 EXCEPT !.batches[b].sentBytes = sentBytes]
          IN IF OnSendAllDone(completed, batch.stat)
               THEN CallUser(st2, b, batch.callback, Null, sentBytes)
               ELSE st2

\* a completion that reaches onSend only, never a caller's own function
InvokeOnSendOnly(st, b, cb, error, bytes) ==
  IF IsOnSend(cb) THEN OnSend(st, cb.b, error, bytes) ELSE st

\* cb(error, bytes), for the value a send was given as its callback; b is the
\* activation the send belongs to
Invoke(st, b, cb, error, bytes) ==
  IF IsOnSend(cb) THEN OnSend(st, cb.b, error, bytes)
  ELSE IF IsFunction(cb) THEN CallUser(st, b, cb, error, bytes)
  ELSE st

-----------------------------------------------------------------------------
(* send *)

\* no random number was drawn
NoDraw == 0 - 1

\* send sampling at a rate of 1 as well
SampledUpToOne(sampleRate) == Truthy(sampleRate) /\ sampleRate.n <= 10

\* sampleRate && sampleRate < 1 (line 197)
Sampled(sampleRate) == Truthy(sampleRate) /\ sampleRate.n < 10

\* Math.random() < sampleRate (line 198), draw in tenths
Survives(draw, sampleRate) == draw < sampleRate.n

\* tags && Array.isArray(tags) (line 206)
Tagged(tags) == Truthy(tags) /\ IsArray(tags)

\* the message before sampling and tags (line 194)
BaseLine(c, stat, value, type) ==
  ToStr(c.prefix) \o ToStr(stat) \o ToStr(c.suffix)
    \o <<":">> \o ToStr(value) \o <<"|">> \o <<type>>

\* the message of a send that is not dropped (lines 194-208)
Message(c, stat, value, type, sampleRate, tags) ==
  BaseLine(c, stat, value, type)
    \o (IF Sampled(sampleRate) THEN <<"|@">> \o ToStr(sampleRate) ELSE <<>>)
    \o (IF Tagged(tags) THEN <<"|#">> \o Join(tags.a) ELSE <<>>)

\* send without its mock test
TransmitsAlways(c) == TRUE

\* !this.mock (line 211)
Transmits(c) == ~Truthy(c.mock)

\* the mock branch reporting one byte
MockBytesOne == Whole(1)

\* what the mock branch reports (line 216)
MockBytes == Whole(0)

\* the arguments of this.socket.send(buf, 0, buf.length, this.port, this.host,
\* callback) (line 213), with what the handle and the lookup were at the time;
\* a closed handle that throws never reports on the datagram
Datagram(st, c, b, message, callback) ==
  [buf |-> message, port |-> c.port, host |-> c.host, callback |-> callback,
   call |-> b, done |-> st.socket.closed /\ st.socket.throws, first |-> FALSE,
   error |-> Undef, bytes |-> Undef,
   closed |-> st.socket.closed, thrown |-> st.socket.closed /\ st.socket.throws,
   lookup |-> st.lookup.state]

\* send keeping a closed flag of its own: nothing is handed to a closed socket
HandOffUnlessClosed(st, c, b, message, callback, entry) ==
  IF st.socket.closed
    THEN [st EXCEPT !.trace = Append(@, entry)]
    ELSE [st EXCEPT
            !.sent = Append(@, Datagram(st, c, b, message, callback)),
            !.trace = Append(@, [entry EXCEPT !.handed = Len(st.sent) + 1])]

\* the hand-off to the socket (lines 212-213), whatever state the socket is
\* in; an exception of socket.send leaves the b-th activation
HandOff(st, c, b, message, callback, entry) ==
  [st EXCEPT
     !.sent = Append(@, Datagram(st, c, b, message, callback)),
     !.trace = Append(@, [entry EXCEPT !.handed = Len(st.sent) + 1]),
     !.batches[b].thrown = st.socket.closed /\ st.socket.throws]

\* this.send(stat, value, type, sampleRate, tags, callback) at lines 193-219,
\* within the b-th activation; draw is what Math.random() returns if called
Send(st, c, b, stat, value, type, sampleRate, tags, callback, draw) ==
  LET message == Message(c, stat, value, type, sampleRate, tags)
      entry == [call |-> b, stat |-> stat, value |-> value, type |-> type,
                sampleRate |-> sampleRate, tags |-> tags, callback |-> callback,
                draw |-> IF Sampled(sampleRate) THEN draw ELSE NoDraw,
                dropped |-> FALSE, message |-> message, handed |-> 0,
                closed |-> st.socket.closed]
  IN IF Sampled(sampleRate) /\ ~Survives(draw, sampleRate)
       THEN [st EXCEPT !.trace =
               Append(@, [entry EXCEPT !.dropped = TRUE, !.message = <<>>])]
     ELSE IF Transmits(c)
       THEN HandOff(st, c, b, message, callback, entry)
     ELSE IF IsFunction(callback)
       THEN Invoke([st EXCEPT !.trace = Append(@, entry)],
                   b, callback, Null, MockBytes)
     ELSE [st EXCEPT !.trace = Append(@, entry)]

-----------------------------------------------------------------------------
(* sendAll *)

\* a non-number in the sampleRate slot is the tags, and the next slot the
\* callback (lines 142-146)
ShiftSampleRate(p) ==
  IF Truthy(p.sampleRate) /\ ~IsNumber(p.sampleRate)
    THEN [sampleRate |-> Undef, tags |-> p.sampleRate, callback |-> p.tags]
    ELSE p

\* sendAll without its second shift
ShiftTagsNever(p) == p

\* a non-array in the tags slot is the callback (lines 148-151)
ShiftTags(p) ==
  IF Truthy(p.tags) /\ ~IsArray(p.tags)
    THEN [p EXCEPT !.callback = p.tags, !.tags = Undef]
    ELSE p

\* sampleRate, tags and callback as sendAll uses them (lines 142-151)
Disambiguate(sampleRate, tags, callback) ==
  ShiftTags(ShiftSampleRate(
    [sampleRate |-> sampleRate, tags |-> tags, callback |-> callback]))

\* stat.forEach(item => self.send(item, ..., onSend)), from item i on
\* (lines 176-178); an exception out of a send ends the loop
RECURSIVE SendEach(_, _, _, _, _, _)
SendEach(st, c, b, i, p, draws) ==
  LET batch == st.batches[b]
  IN IF i > Len(batch.stat.a) \/ batch.thrown THEN st
     ELSE SendEach(Send(st, c, b, batch.stat.a[i], batch.value, batch.type,
                        p.sampleRate, p.tags, OnSendOf(b), draws[i]),
                   c, b, i + 1, p, draws)

\* this.sendAll(stat, value, type, sampleRate, tags, callback), lines 136-182,
\* as the activation a typed operation op(args) made
SendAll(st, c, op, intent, stat, value, type, sampleRate, tags, callback, draws) ==
  LET p == Disambiguate(sampleRate, tags, callback)
      b == Len(st.batches) + 1
      batch == [op |-> op, intent |-> intent,
                stat |-> stat, value |-> value, type |-> type,
                sampleRate |-> p.sampleRate, tags |-> p.tags,
                callback |-> p.callback,
                completed |-> 0, calledback |-> FALSE, sentBytes |-> Whole(0),
                thrown |-> FALSE]
      st1 == [st EXCEPT !.batches = Append(@, batch)]
  IN IF IsArray(stat)
       THEN SendEach(st1, c, b, 1, p, draws)
       ELSE Send(st1, c, b, stat, value, type,
                 p.sampleRate, p.tags, p.callback, draws[1])

-----------------------------------------------------------------------------
(* The calls a caller makes *)

\* the actual arguments of a typed call that means to pass these values:
\* a value that is absent (undefined) is left out, except that a missing value
\* in front of later arguments is passed as undefined
Actuals(intent) ==
  LET opt(v) == IF v = Undef THEN <<>> ELSE <<v>>
      rest == opt(intent.sampleRate) \o opt(intent.tags) \o opt(intent.callback)
  IN <<intent.stat>>
       \o (IF intent.value = Undef /\ rest = <<>> THEN <<>> ELSE <<intent.value>>)
       \o rest

\* the number of random draws a call may need: one per send
NDraws(stat) == IF IsArray(stat) THEN Len(stat.a) ELSE 1

\* what a call works on: the logs it extends, and the socket and the lookup
\* as it finds them
State ==
  [sent |-> sent, batches |-> batches, invoked |-> invoked, trace |-> trace,
   socket |-> socket, lookup |-> lookup]

Becomes(st) ==
  /\ sent' = st.sent
  /\ batches' = st.batches
  /\ invoked' = st.invoked
  /\ trace' = st.trace

-----------------------------------------------------------------------------
(* Bounds and the values the environment supplies *)

\* typed calls made on one client
MaxCalls == 1

\* names in the longest array of stat names
MaxNames == 3

\* the i-th stat name: i letters long, so that no two datagrams of a fan-out
\* have the same length
Name(i) == Str([j \in 1..i |-> "n"])

Names(n) == [i \in 1..n |-> Name(i)]

\* the error object the socket makes for the failure of its i-th datagram
Err(i) == [k |-> "error", of |-> i]

Fields == {"host", "port", "prefix", "suffix", "mock"}

\* the client before its constructor has run
NoClient == [f \in Fields |-> Undef]

NoVals == [f \in Fields |-> Undef]

\* the cacheDns value given to the constructor, if one is
GivenCacheDns(vals) ==
  IF "cacheDns" \in DOMAIN vals THEN vals.cacheDns ELSE Undef

\* new Client(host, port, prefix, suffix, globalize, cacheDns, mock) with the
\* given values in their positions and nothing passed after the last given one
PositionalArgs(vals) ==
  LET full == <<vals.host, vals.port, vals.prefix, vals.suffix,
                Undef, GivenCacheDns(vals), vals.mock>>
      at == {i \in 1..Len(full) : full[i] # Undef}
      n == IF at = {} THEN 0 ELSE CHOOSE i \in at : \A j \in at : j <= i
  IN SubSeq(full, 1, n)

\* new Client({...}) with the given values as the record's fields
RecordArgs(vals) ==
  <<Obj([f \in {g \in DOMAIN vals : vals[g] # Undef} |-> vals[f]])>>

-----------------------------------------------------------------------------
(* Actions *)

Init ==
  /\ client = NoClient
  /\ given = [form |-> "none", vals |-> NoVals]
  /\ sent = <<>>
  /\ batches = <<>>
  /\ invoked = <<>>
  /\ trace = <<>>
  /\ lookup = NoLookup
  /\ socket = [closed |-> FALSE, throws |-> FALSE]

\* new Client(host, port, ...): lines 18-52
NewPositional(V) ==
  \E vals \in V :
    /\ given.form = "none"
    /\ client' = Client(PositionalArgs(vals))
    /\ lookup' = Lookup(PositionalArgs(vals))
    /\ given' = [form |-> "positional", vals |-> vals]
    /\ UNCHANGED <<sent, batches, invoked, trace, socket>>

\* new Client({host: ..., port: ..., ...}): lines 18-52
NewRecord(V) ==
  \E vals \in V :
    /\ given.form = "none"
    /\ client' = Client(RecordArgs(vals))
    /\ lookup' = Lookup(RecordArgs(vals))
    /\ given' = [form |-> "record", vals |-> vals]
    /\ UNCHANGED <<sent, batches, invoked, trace, socket>>

\* value || 1 (line 75)
IncrementValue(value) == Or(value, Whole(1))

\* -value || -1 (line 87)
DecrementValue(value) == Or(Neg(value), Whole(0 - 1))

\* a typed operation can be called: the client exists, and the model's bound
\* on the number of calls is not used up
CanCall == given.form # "none" /\ Len(batches) < MaxCalls

\* the draws Math.random() may return to the sends of one call
DrawsFor(I, intent) == [1..NDraws(intent.stat) -> I.draws]

\* Client.prototype.timing (lines 62-64), called with the actual arguments of an intent
Timing(I) ==
  \E intent \in I.calls :
    \E draws \in DrawsFor(I, intent) :
      LET a == Actuals(intent)
      IN /\ CanCall
         /\ Becomes(SendAll(State, client, "timing", intent,
                            Arg(a, 1), Arg(a, 2), "ms",
                            Arg(a, 3), Arg(a, 4), Arg(a, 5), draws))
         /\ UNCHANGED <<client, given, lookup, socket>>

\* Client.prototype.increment (lines 74-76), called with the actual arguments of an intent
Increment(I) ==
  \E intent \in I.calls :
    \E draws \in DrawsFor(I, intent) :
      LET a == Actuals(intent)
      IN /\ CanCall
         /\ Becomes(SendAll(State, client, "increment", intent,
                            Arg(a, 1), IncrementValue(Arg(a, 2)), "c",
                            Arg(a, 3), Arg(a, 4), Arg(a, 5), draws))
         /\ UNCHANGED <<client, given, lookup, socket>>

\* Client.prototype.decrement (lines 86-88), called with the actual arguments of an intent
Decrement(I) ==
  \E intent \in I.calls :
    \E draws \in DrawsFor(I, intent) :
      LET a == Actuals(intent)
      IN /\ CanCall
         /\ Becomes(SendAll(State, client, "decrement", intent,
                            Arg(a, 1), DecrementValue(Arg(a, 2)), "c",
                            Arg(a, 3), Arg(a, 4), Arg(a, 5), draws))
         /\ UNCHANGED <<client, given, lookup, socket>>

\* Client.prototype.histogram (lines 98-100), called with the actual arguments of an intent
Histogram(I) ==
  \E intent \in I.calls :
    \E draws \in DrawsFor(I, intent) :
      LET a == Actuals(intent)
      IN /\ CanCall
         /\ Becomes(SendAll(State, client, "histogram", intent,
                            Arg(a, 1), Arg(a, 2), "h",
                            Arg(a, 3), Arg(a, 4), Arg(a, 5), draws))
         /\ UNCHANGED <<client, given, lookup, socket>>

\* Client.prototype.gauge (lines 111-113), called with the actual arguments of an intent
Gauge(I) ==
  \E intent \in I.calls :
    \E draws \in DrawsFor(I, intent) :
      LET a == Actuals(intent)
      IN /\ CanCall
         /\ Becomes(SendAll(State, client, "gauge", intent,
                            Arg(a, 1), Arg(a, 2), "g",
                            Arg(a, 3), Arg(a, 4), Arg(a, 5), draws))
         /\ UNCHANGED <<client, given, lookup, socket>>

\* Client.prototype.set, also unique (lines 123-126), called with the actual arguments of an intent
Set(I) ==
  \E intent \in I.calls :
    \E draws \in DrawsFor(I, intent) :
      LET a == Actuals(intent)
      IN /\ CanCall
         /\ Becomes(SendAll(State, client, "set", intent,
                            Arg(a, 1), Arg(a, 2), "s",
                            Arg(a, 3), Arg(a, 4), Arg(a, 5), draws))
         /\ UNCHANGED <<client, given, lookup, socket>>

\* the socket reports the outcome of one datagram it was handed, by calling
\* the callback argument of socket.send (line 213) with (null, the bytes sent:
\* the length of the buffer) or with (its error); each datagram completes at
\* most once, and one handed to a closed socket is never reported as sent.
\* first records whether this is the first failure of its call.
Complete(O) ==
  \E i \in 1..Len(sent) :
    \E ok \in O :
      LET error == IF ok THEN Null ELSE Err(i)
          bytes == IF ok THEN Whole(Len(sent[i].buf)) ELSE Undef
          first == ~ok /\ \A j \in 1..Len(sent) :
                     sent[j].call = sent[i].call => sent[j].error \in {Undef, Null}
          st == [State EXCEPT !.sent[i].done = TRUE,
                              !.sent[i].error = error,
                              !.sent[i].bytes = bytes,
                              !.sent[i].first = first]
      IN /\ ~sent[i].done
         /\ ok => ~sent[i].closed
         /\ Becomes(Invoke(st, sent[i].call, sent[i].callback, error, bytes))
         /\ UNCHANGED <<client, given, lookup, socket>>

\* the resolver answers the lookup the constructor started, by calling its
\* callback (lines 42-46) with (null, an address) or with (its error)
Resolve(A) ==
  \E answer \in A :
    /\ lookup.state = "pending"
    /\ answer.named = Truthy(lookup.name)
    /\ client' = OnLookup(client, answer.err, answer.address)
    /\ lookup' = [lookup EXCEPT
                    !.state = IF answer.err = Null THEN "resolved" ELSE "failed",
                    !.address = answer.address]
    /\ UNCHANGED <<given, sent, batches, invoked, trace, socket>>

\* close clearing the host along with the socket
CloseForgetsHost(H) ==
  \E throws \in H :
    /\ given.form # "none"
    /\ ~socket.closed
    /\ socket' = [closed |-> TRUE, throws |-> throws]
    /\ client' = [client EXCEPT !.host = Undef]
    /\ UNCHANGED <<given, sent, batches, invoked, trace, lookup>>

\* Client.prototype.close (lines 224-226): this.socket.close().  From then on
\* the handle answers a send either by throwing or by reporting an error; a
\* second close finds the handle closed and changes nothing.
Close(H) ==
  \E throws \in H :
    /\ given.form # "none"
    /\ ~socket.closed
    /\ socket' = [closed |-> TRUE, throws |-> throws]
    /\ UNCHANGED <<client, given, sent, batches, invoked, trace, lookup>>

-----------------------------------------------------------------------------
(* Fan-out and completions in every order, on a client that transmits and   *)
(* on a mock client                                                          *)

PlainClients == {NoVals}

MockClients == {[NoVals EXCEPT !.mock = Bool(TRUE)]}

\* fan-outs of every length up to MaxNames, with and without callback
FanCalls ==
  [calls |-> [stat : {Name(1)} \cup {Arr(Names(n)) : n \in 0..MaxNames},
              value : {Whole(2)},
              sampleRate : {Undef},
              tags : {Undef},
              callback : {Undef, Fn("cb")}],
   draws |-> {2}]

\* the same fan-outs with a callback, sampled at 0.5, each name's draw on
\* either side of the rate
SampledCalls ==
  [calls |-> [stat : {Name(1)} \cup {Arr(Names(n)) : n \in 0..MaxNames},
              value : {Whole(2)},
              sampleRate : {Num(5)},
              tags : {Undef},
              callback : {Fn("cb")}],
   draws |-> {2, 7}]

\* one name or two, with a callback and no sampling
PlainCalls ==
  [calls |-> [stat : {Name(1), Arr(Names(2))},
              value : {Whole(2)},
              sampleRate : {Undef},
              tags : {Undef},
              callback : {Fn("cb")}],
   draws |-> {2}]

\* one name, with a callback and no sampling
SingleCalls ==
  [calls |-> [stat : {Name(1)},
              value : {Whole(2)},
              sampleRate : {Undef},
              tags : {Undef},
              callback : {Fn("cb")}],
   draws |-> {2}]

\* a datagram is sent, or its transmission fails
Outcomes == {TRUE, FALSE}

Next ==
  \/ NewPositional(PlainClients)
  \/ NewRecord(MockClients)
  \/ Timing(FanCalls)
  \/ Increment(PlainCalls)
  \/ Decrement(PlainCalls)
  \/ Histogram(PlainCalls)
  \/ Gauge(PlainCalls)
  \/ Set(PlainCalls)
  \/ Complete(Outcomes)

Spec == Init /\ [][Next]_vars

\* the fan-outs sampled, the other operations on one name
NextSampled ==
  \/ NewPositional(PlainClients)
  \/ NewRecord(MockClients)
  \/ Timing(SampledCalls)
  \/ Increment(SingleCalls)
  \/ Decrement(SingleCalls)
  \/ Histogram(SingleCalls)
  \/ Gauge(SingleCalls)
  \/ Set(SingleCalls)
  \/ Complete(Outcomes)

SpecSampled == Init /\ [][NextSampled]_vars

-----------------------------------------------------------------------------
(* What the logs say about one call *)

Calls == 1..Len(batches)

\* the invocations of the caller's callback that the b-th call produced
InvocationsOf(b) == {i \in 1..Len(invoked) : invoked[i].call = b}

\* the datagrams the b-th call handed to the socket
DatagramsOf(b) == {i \in 1..Len(sent) : sent[i].call = b}

\* the sends of the b-th call that sampling did not drop
SurvivorsOf(b) == {i \in 1..Len(trace) : trace[i].call = b /\ ~trace[i].dropped}

\* the b-th call is a fan-out over at least one name with a callback
IsFanOut(b) ==
  /\ IsArray(batches[b].stat)
  /\ Len(batches[b].stat.a) >= 1
  /\ IsFunction(batches[b].callback)

\* the sum of the byte counts the socket reported for the datagrams in S
RECURSIVE SumBytes(_)
SumBytes(S) ==
  IF S = {} THEN 0
  ELSE LET i == CHOOSE j \in S : TRUE
       IN sent[i].bytes.n + SumBytes(S \ {i})

\* every datagram of the b-th call has completed, and none with an error
AllSucceeded(b) ==
  /\ Cardinality(DatagramsOf(b)) = Len(batches[b].stat.a)
  /\ \A i \in DatagramsOf(b) : sent[i].done /\ sent[i].error = Null

\* the datagrams of the b-th call that completed with an error
FailuresOf(b) == {i \in DatagramsOf(b) : sent[i].done /\ sent[i].error # Null}

-----------------------------------------------------------------------------
(* C1: whatever the order and the outcomes of the completions of a fan-out   *)
(* over N >= 1 names with a callback, the callback is invoked at most once.  *)
C1_AtMostOnce ==
  \A b \in Calls : IsFanOut(b) => Cardinality(InvocationsOf(b)) <= 1

\* a fan-out over MaxNames names, all completed, two of them with an error
C1_Witness ==
  \E b \in Calls :
    /\ IsFanOut(b)
    /\ Len(batches[b].stat.a) = MaxNames
    /\ batches[b].completed = MaxNames
    /\ Cardinality(FailuresOf(b)) >= 2
    /\ Cardinality(InvocationsOf(b)) = 1

(* C2: when all N sends of a fan-out complete without error, the callback    *)
(* is invoked exactly once, with no error and the sum of the byte counts,    *)
(* in whatever order the completions arrived.                                *)
C2_SumOnce ==
  \A b \in Calls :
    IsFanOut(b) /\ AllSucceeded(b) =>
      /\ Cardinality(InvocationsOf(b)) = 1
      /\ \A i \in InvocationsOf(b) :
           /\ invoked[i].error = Null
           /\ invoked[i].bytes = Num(SumBytes(DatagramsOf(b)))

\* a fan-out over MaxNames names with all its datagrams sent, no two of the
\* same size
C2_Witness ==
  \E b \in Calls :
    /\ IsFanOut(b)
    /\ AllSucceeded(b)
    /\ Len(batches[b].stat.a) = MaxNames
    /\ \A i, j \in DatagramsOf(b) : sent[i].bytes = sent[j].bytes => i = j
    /\ \E i \in InvocationsOf(b) : invoked[i].bytes.n > 0

(* C3: when a completion of a fan-out carries an error, the callback is      *)
(* invoked exactly once, with the error of the first failed completion, and  *)
(* no later completion, the N-th included, invokes it again or reports       *)
(* success.                                                                  *)
C3_FirstErrorOnce ==
  \A b \in Calls :
    IsFanOut(b) /\ FailuresOf(b) # {} =>
      /\ Cardinality(InvocationsOf(b)) = 1
      /\ \A i \in InvocationsOf(b) :
           /\ invoked[i].bytes = Undef
           /\ \E j \in FailuresOf(b) : sent[j].first /\ invoked[i].error = sent[j].error

\* three names: one datagram sent, then one failed, then the last one sent
\* (only the first success reached sentBytes)
C3_Witness ==
  \E b \in Calls :
    /\ IsFanOut(b)
    /\ Len(batches[b].stat.a) = 3
    /\ batches[b].completed = 3
    /\ Cardinality(FailuresOf(b)) = 1
    /\ \E i \in DatagramsOf(b) :
         sent[i].error = Null /\ batches[b].sentBytes = sent[i].bytes
    /\ Cardinality(InvocationsOf(b)) = 1

(* C6: a mock client never hands a datagram to the socket, every callback    *)
(* invocation it produces carries (null, 0), and a single-name call with a   *)
(* callback and no sampling invokes the callback, with (null, 0).            *)
C6_MockReportsZero ==
  Truthy(client.mock) =>
    /\ sent = <<>>
    /\ \A i \in 1..Len(invoked) :
         invoked[i].error = Null /\ invoked[i].bytes = Whole(0)
    /\ \A b \in Calls :
         (/\ ~IsArray(batches[b].stat)
          /\ IsFunction(batches[b].callback)
          /\ ~Sampled(batches[b].sampleRate))
           => Cardinality(InvocationsOf(b)) = 1

\* a mock client after increment(name, value, callback): the callback has
\* been invoked with (null, 0)
C6_Witness ==
  /\ Truthy(client.mock)
  /\ \E b \in Calls :
       /\ batches[b].op = "increment"
       /\ ~IsArray(batches[b].stat)
       /\ \E i \in InvocationsOf(b) :
            invoked[i].error = Null /\ invoked[i].bytes = Whole(0)

(* C7, as claimed: every send that sampling does not drop hands exactly one  *)
(* datagram to the socket, so that a fan-out hands one datagram per name     *)
(* that survives sampling, and none is handed again after a completion.      *)
C7_OnePerSend ==
  /\ \A i \in 1..Len(trace) :
       ~trace[i].dropped =>
         /\ trace[i].handed \in 1..Len(sent)
         /\ sent[trace[i].handed].buf = trace[i].message
         /\ \A j \in 1..Len(trace) : trace[j].handed = trace[i].handed => j = i
  /\ \A b \in Calls : Cardinality(DatagramsOf(b)) = Cardinality(SurvivorsOf(b))

(* C7, amended: on a client that is not a mock, every send that sampling     *)
(* does not drop hands exactly one datagram to the socket, one per surviving *)
(* name of a fan-out, and none is handed again after a completion; a mock    *)
(* client hands none.                                                        *)
C7_OnePerSendUnlessMock ==
  IF Truthy(client.mock) THEN sent = <<>> ELSE C7_OnePerSend

\* a fan-out over three names on a client that is not a mock: sampling
\* dropped one name, the other two were handed over and completed, one failed
C7_Witness ==
  /\ ~Truthy(client.mock)
  /\ \E b \in Calls :
       /\ IsArray(batches[b].stat)
       /\ Len(batches[b].stat.a) = 3
       /\ Cardinality(SurvivorsOf(b)) = 2
       /\ Cardinality(DatagramsOf(b)) = 2
       /\ \A i \in DatagramsOf(b) : sent[i].done
       /\ Cardinality(FailuresOf(b)) = 1

-----------------------------------------------------------------------------
(* The line encoder: sample rates on both sides of every draw, tag           *)
(* sequences of every length, with and without prefix and suffix             *)

Tag(i) == Str(<<"t", ToString(i)>>)

EncodeClients ==
  {NoVals,
   [NoVals EXCEPT !.prefix = Str(<<"p.">>), !.suffix = Str(<<".s">>)],
   [NoVals EXCEPT !.mock = Bool(TRUE)]}

EncodeCalls ==
  [calls |-> [stat : {Name(1)},
              value : {Whole(2)},
              sampleRate : {Undef, Num(0), Num(5), Num(10), Num(20), Num(0 - 5)},
              tags : {Undef} \cup {Arr([i \in 1..n |-> Tag(i)]) : n \in 0..2},
              callback : {Fn("cb")}],
   draws |-> {0, 4, 5, 9}]

NextEncode ==
  \/ NewRecord(EncodeClients)
  \/ Timing(EncodeCalls)
  \/ Increment(PlainCalls)
  \/ Decrement(PlainCalls)
  \/ Histogram(PlainCalls)
  \/ Gauge(PlainCalls)
  \/ Set(PlainCalls)
  \/ Complete(Outcomes)

SpecEncode == Init /\ [][NextEncode]_vars

\* the sample rate of a send is a number below 1
BelowOne(sampleRate) == sampleRate.k = "number" /\ sampleRate.n < 10

\* a send drew a number below its sample rate
Survived(e) ==
  BelowOne(e.sampleRate) /\ e.draw # NoDraw /\ e.draw < e.sampleRate.n

\* the line of a send as the wire format gives it
WireLine(e) ==
  ToStr(client.prefix) \o ToStr(e.stat) \o ToStr(client.suffix)
    \o <<":">> \o ToStr(e.value) \o <<"|", e.type>>
    \o (IF Survived(e) THEN <<"|@">> \o NumStr(e.sampleRate.n) ELSE <<>>)
    \o (IF IsArray(e.tags) /\ Len(e.tags.a) > 0
          THEN <<"|#">> \o Join(e.tags.a) ELSE <<>>)

\* the send of a single-name call that has not invoked the caller's callback
NotReported(e) ==
  ~IsOnSend(e.callback) => InvocationsOf(e.call) = {}

(* C4: a send whose sample rate is given and below 1 is dropped when the     *)
(* draw is at least the rate (no datagram, the callback never invoked), and  *)
(* is sent with "|@" and the rate appended when the draw is below the rate.  *)
C4_SampledOrDropped ==
  \A i \in 1..Len(trace) :
    LET e == trace[i]
    IN BelowOne(e.sampleRate) =>
         IF e.dropped
           THEN /\ e.draw # NoDraw /\ e.draw >= e.sampleRate.n
                /\ e.handed = 0
                /\ NotReported(e)
           ELSE /\ Survived(e)
                /\ \E k \in 1..Len(e.message) - 1 :
                     /\ e.message[k] = "|@"
                     /\ SubSeq(e.message, k + 1, Len(e.message))
                          = NumStr(e.sampleRate.n)
                              \o (IF Tagged(e.tags)
                                    THEN <<"|#">> \o Join(e.tags.a) ELSE <<>>)

\* C4 for the sample rates other than 0
C4_NonZeroRates ==
  \A i \in 1..Len(trace) :
    LET e == trace[i]
    IN BelowOne(e.sampleRate) /\ e.sampleRate.n # 0 =>
         IF e.dropped
           THEN /\ e.draw # NoDraw /\ e.draw >= e.sampleRate.n
                /\ e.handed = 0
                /\ NotReported(e)
           ELSE /\ Survived(e)
                /\ \E k \in 1..Len(e.message) - 1 :
                     /\ e.message[k] = "|@"
                     /\ SubSeq(e.message, k + 1, Len(e.message))
                          = NumStr(e.sampleRate.n)
                              \o (IF Tagged(e.tags)
                                    THEN <<"|#">> \o Join(e.tags.a) ELSE <<>>)

(* C5: the line of a send that is not dropped is prefix, name, suffix, ":",  *)
(* value, "|", type, then "|@" and the rate exactly when a rate below 1 was  *)
(* given and survived sampling, then "|#" and the tags joined by ","         *)
(* exactly when a non-empty tag sequence was given, and nothing else.        *)
C5_WireFormat ==
  \A i \in 1..Len(trace) :
    ~trace[i].dropped => trace[i].message = WireLine(trace[i])

\* C5 for the sends whose tags are not the empty sequence
C5_NonEmptyTags ==
  \A i \in 1..Len(trace) :
    ~trace[i].dropped /\ trace[i].tags # Arr(<<>>) =>
      trace[i].message = WireLine(trace[i])

-----------------------------------------------------------------------------
(* The arguments of the typed operations: every value, every call shape      *)

ShapeCalls ==
  [calls |-> [stat : {Name(1), Arr(Names(2))},
              value : {Whole(2)},
              sampleRate : {Undef, Num(0), Num(5)},
              tags : {Undef, Arr(<<>>), Arr(<<Tag(1)>>)},
              callback : {Undef, Fn("cb")}],
   draws |-> {2, 7}]

ValueCalls ==
  [calls |-> [stat : {Name(1)},
              value : {Undef} \cup {Whole(v) : v \in (0 - 2)..2},
              sampleRate : {Undef},
              tags : {Undef, Arr(<<Tag(1)>>)},
              callback : {Fn("cb")}],
   draws |-> {2}]

NextArgs ==
  \/ NewPositional(PlainClients)
  \/ NewRecord(MockClients)
  \/ Timing(ShapeCalls)
  \/ Increment(ValueCalls)
  \/ Decrement(ValueCalls)
  \/ Histogram(ShapeCalls)
  \/ Gauge(ShapeCalls)
  \/ Set(ShapeCalls)

SpecArgs == Init /\ [][NextArgs]_vars

\* the sends of the b-th call
SendsOf(b) == {i \in 1..Len(trace) : trace[i].call = b}

(* C8: increment(name, v) sends v, and 1 when no value is given;             *)
(* decrement(name, v) sends the negation of v, and -1 when no value is       *)
(* given; both with the type code "c"; for every integer v of a range that   *)
(* holds 0 and negative numbers.                                             *)
C8_CounterValues ==
  \A b \in Calls :
    LET v == batches[b].intent.value
        want == IF batches[b].op = "increment"
                  THEN IF v = Undef THEN Whole(1) ELSE v
                  ELSE IF v = Undef THEN Whole(0 - 1) ELSE Num(0 - v.n)
    IN batches[b].op \in {"increment", "decrement"} =>
         /\ batches[b].value = want
         /\ batches[b].type = "c"
         /\ \A i \in SendsOf(b) : trace[i].value = want /\ trace[i].type = "c"

\* C8 for the values other than 0
C8_NonZeroValues ==
  \A b \in Calls :
    LET v == batches[b].intent.value
        want == IF batches[b].op = "increment"
                  THEN IF v = Undef THEN Whole(1) ELSE v
                  ELSE IF v = Undef THEN Whole(0 - 1) ELSE Num(0 - v.n)
    IN batches[b].op \in {"increment", "decrement"} /\ v # Whole(0) =>
         /\ batches[b].value = want
         /\ batches[b].type = "c"
         /\ \A i \in SendsOf(b) : trace[i].value = want /\ trace[i].type = "c"

(* C9: for every call shape (sampleRate, tags and callback each given or     *)
(* not), the sampleRate, tags and callback that sendAll uses and hands to    *)
(* the encoder are the caller's: none is lost or lands in another parameter. *)
C9_ShapesResolve ==
  \A b \in Calls :
    LET want == batches[b].intent
    IN /\ batches[b].sampleRate = want.sampleRate
       /\ batches[b].tags = want.tags
       /\ batches[b].callback = want.callback
       /\ \A i \in SendsOf(b) :
            /\ trace[i].sampleRate = want.sampleRate
            /\ trace[i].tags = want.tags
            /\ trace[i].callback =
                 IF IsArray(batches[b].stat) THEN OnSendOf(b) ELSE want.callback

\* a call with the callback as its third argument, in the sampleRate slot:
\* shifted twice, it reached send as the callback
C9_Witness ==
  \E b \in Calls :
    /\ IsFunction(batches[b].intent.callback)
    /\ Actuals(batches[b].intent)[3] = batches[b].intent.callback
    /\ ~IsArray(batches[b].stat)
    /\ \E i \in SendsOf(b) :
         /\ trace[i].callback = batches[b].intent.callback
         /\ trace[i].sampleRate = Undef
         /\ trace[i].tags = Undef

-----------------------------------------------------------------------------
(* The constructor: every choice of given and omitted values, in both forms  *)

AllClients ==
  [host : {Undef, Str(<<"h">>)},
   port : {Undef, Whole(1234)},
   prefix : {Undef, Str(<<>>), Str(<<"p.">>)},
   suffix : {Undef, Str(<<".s">>)},
   mock : {Undef, Bool(TRUE), Bool(FALSE)}]

NextCtor ==
  \/ NewPositional(AllClients)
  \/ NewRecord(AllClients)

SpecCtor == Init /\ [][NextCtor]_vars

\* the configuration the given values stand for: each value given, and the
\* documented default for each one omitted
Defaults ==
  [host |-> Str(<<"localhost">>), port |-> Whole(8125),
   prefix |-> Str(<<>>), suffix |-> Str(<<>>), mock |-> Bool(FALSE)]

Configured(vals) ==
  [f \in Fields |-> IF vals[f] = Undef THEN Defaults[f] ELSE vals[f]]

(* C10: the positional form and the record form of the constructor, given    *)
(* the same values, yield the same host, port, prefix, suffix and mock, the  *)
(* omitted ones being "localhost", 8125, "", "" and false.                   *)
C10_SameConfig ==
  given.form # "none" =>
    /\ Client(PositionalArgs(given.vals)) = Client(RecordArgs(given.vals))
    /\ client = Configured(given.vals)

\* C10 for host, port, prefix and suffix, and for mock when it is given
C10_ButOmittedMock ==
  given.form # "none" =>
    \A f \in Fields :
      f # "mock" \/ given.vals.mock # Undef =>
        /\ Client(PositionalArgs(given.vals))[f] = Client(RecordArgs(given.vals))[f]
        /\ client[f] = Configured(given.vals)[f]

-----------------------------------------------------------------------------
(* The life of one client: construction with and without DNS caching, the    *)
(* answer of the resolver, typed operations, completions and close, in every *)
(* order                                                                     *)

\* clients with and without a host, with and without DNS caching
LifeClients ==
  [host : {Undef, Str(<<"h">>)}, port : {Undef}, prefix : {Undef},
   suffix : {Undef}, mock : {Undef}, cacheDns : {Undef, Bool(TRUE)}]

\* one name or two, with a callback
LifeCalls ==
  [calls |-> [stat : {Name(1), Arr(Names(2))},
              value : {Whole(2)},
              sampleRate : {Undef},
              tags : {Undef},
              callback : {Fn("cb")}],
   draws |-> {2}]

\* what the resolver may answer: an address or an error for a host name, and
\* (null, null) when it was given no name
Answers ==
  {[named |-> TRUE, err |-> Null, address |-> Str(<<"10.0.0.1">>)],
   [named |-> TRUE, err |-> Err(0), address |-> Undef],
   [named |-> FALSE, err |-> Null, address |-> Null]}

\* a closed handle throws on send, or reports an error
Handles == {TRUE, FALSE}

NextLife ==
  \/ NewPositional(LifeClients)
  \/ NewRecord(LifeClients)
  \/ Resolve(Answers)
  \/ Timing(LifeCalls)
  \/ Increment(SingleCalls)
  \/ Decrement(SingleCalls)
  \/ Histogram(SingleCalls)
  \/ Gauge(SingleCalls)
  \/ Set(SingleCalls)
  \/ Complete(Outcomes)
  \/ Close(Handles)

SpecLife == Init /\ [][NextLife]_vars

\* the caller asked for DNS caching
Requested == given.form # "none" /\ GivenCacheDns(given.vals) = Bool(TRUE)

\* the host the client was constructed with
OriginalHost == Configured(given.vals).host

(* C11: with DNS caching requested, one lookup is started at construction    *)
(* and none after it (and none at all without the request); a datagram       *)
(* handed over before the lookup is answered, or after it failed, goes to    *)
(* the original host, one handed over after it succeeded goes to the         *)
(* resolved address; after a failed lookup the host is the original one.     *)
C11_ResolveOnce ==
  /\ lookup.started = IF Requested THEN 1 ELSE 0
  /\ \A i \in 1..Len(sent) :
       sent[i].host = IF sent[i].lookup = "resolved"
                        THEN lookup.address ELSE OriginalHost
  /\ lookup.state = "failed" => client.host = OriginalHost
  /\ lookup.state = "resolved" => client.host = lookup.address

\* a datagram went to the original host while the lookup was pending, and
\* the lookup has since succeeded and replaced the host by the address
C11_Witness ==
  /\ Requested
  /\ lookup.state = "resolved"
  /\ client.host = Str(<<"10.0.0.1">>)
  /\ \E i \in 1..Len(sent) :
       sent[i].lookup = "pending" /\ sent[i].host = Str(<<"h">>)

(* C12: once the client is constructed, no step (typed operation,            *)
(* completion, answer of the resolver, close) changes port, prefix, suffix   *)
(* or mock; a step changes host only if DNS caching was requested and the    *)
(* step is the successful answer to the pending lookup, and an answered      *)
(* lookup is never pending again, so host changes at most once.              *)
C12_ConfigFrozen ==
  [][given.form # "none" =>
       /\ client'.port = client.port
       /\ client'.prefix = client.prefix
       /\ client'.suffix = client.suffix
       /\ client'.mock = client.mock
       /\ client'.host # client.host =>
            /\ Requested
            /\ lookup.state = "pending"
            /\ lookup'.state = "resolved"
       /\ lookup.state # "pending" => lookup' = lookup]_vars

\* the host was replaced by the resolved address, a datagram was sent and
\* reported, and the client was closed
C12_Witness ==
  /\ Requested
  /\ lookup.state = "resolved"
  /\ client.host = Str(<<"10.0.0.1">>)
  /\ OriginalHost = Str(<<"h">>)
  /\ socket.closed
  /\ \E i \in 1..Len(sent) : sent[i].done /\ ~sent[i].thrown

-----------------------------------------------------------------------------
(* C13: a send with a sample rate of exactly 1 is never dropped, whatever    *)
(* Math.random() would return: no draw is consulted, its line carries no     *)
(* "|@", and on a client that transmits the line is handed to the socket.    *)
C13_RateOneAlwaysSent ==
  \A i \in 1..Len(trace) :
    trace[i].sampleRate = Whole(1) =>
      /\ ~trace[i].dropped
      /\ trace[i].draw = NoDraw
      /\ \A j \in 1..Len(trace[i].message) : trace[i].message[j] # "|@"
      /\ Transmits(client) =>
           /\ trace[i].handed \in 1..Len(sent)
           /\ sent[trace[i].handed].buf = trace[i].message

\* a send at rate 1 whose line went to the socket without a rate
C13_Witness ==
  \E i \in 1..Len(trace) :
    /\ trace[i].sampleRate = Whole(1)
    /\ trace[i].handed \in 1..Len(sent)
    /\ sent[trace[i].handed].buf = <<"n", ":", "2", "|", "ms">>

-----------------------------------------------------------------------------
(* C14: on a client that transmits, a call with a single stat name makes one *)
(* send and passes it the caller's callback as it is; if sampling drops the  *)
(* send there is no datagram and no invocation; otherwise there is exactly   *)
(* one datagram, never a second one after a failure, and the callback is     *)
(* invoked once the socket reports, exactly once, with exactly the error or  *)
(* null and the byte count the socket reported.                              *)
C14_SinglePassThrough ==
  Transmits(client) =>
    \A b \in Calls :
      ~IsArray(batches[b].stat) =>
        /\ Cardinality(SendsOf(b)) = 1
        /\ \A e \in SendsOf(b) :
             /\ trace[e].callback = batches[b].intent.callback
             /\ IF trace[e].dropped
                  THEN DatagramsOf(b) = {} /\ InvocationsOf(b) = {}
                  ELSE /\ DatagramsOf(b) = {trace[e].handed}
                       /\ LET d == sent[trace[e].handed]
                          IN IF d.done
                               THEN /\ Cardinality(InvocationsOf(b)) = 1
                                    /\ \A i \in InvocationsOf(b) :
                                         /\ invoked[i].error = d.error
                                         /\ invoked[i].bytes = d.bytes
                                         /\ invoked[i].f = d.callback.f
                               ELSE InvocationsOf(b) = {}

\* the one datagram of a single-name call failed, and the caller's callback
\* received the socket's error, once
C14_Witness ==
  /\ Transmits(client)
  /\ \E b \in Calls :
       /\ ~IsArray(batches[b].stat)
       /\ IsFunction(batches[b].intent.callback)
       /\ \E d \in DatagramsOf(b) :
            /\ DatagramsOf(b) = {d}
            /\ sent[d].done /\ sent[d].error = Err(d)
            /\ \E i \in InvocationsOf(b) :
                 /\ InvocationsOf(b) = {i}
                 /\ invoked[i].error = Err(d)
                 /\ invoked[i].f = "cb"

-----------------------------------------------------------------------------
(* C15: a call whose stat is the empty array makes no send at all, so no     *)
(* datagram on a client that transmits and none on a mock client, and its    *)
(* callback is never invoked.                                                *)
C15_EmptyFanOut ==
  \A b \in Calls :
    batches[b].stat = Arr(<<>>) =>
      /\ SendsOf(b) = {}
      /\ DatagramsOf(b) = {}
      /\ InvocationsOf(b) = {}
      /\ batches[b].completed = 0

\* a call with the empty array and a callback was made on a mock client
C15_Witness ==
  /\ ~Transmits(client)
  /\ \E b \in Calls :
       batches[b].stat = Arr(<<>>) /\ IsFunction(batches[b].callback)

-----------------------------------------------------------------------------
\* the sends made on a closed socket: each one that sampling does not drop is
\* handed to the closed handle all the same, and is never reported as sent;
\* if the handle threw, the call ended there and its callback is not
\* invoked, and if it reported an error, the callback received an error
SendsAfterClose ==
  \A e \in 1..Len(trace) :
    trace[e].closed /\ ~trace[e].dropped /\ Transmits(client) =>
      /\ trace[e].handed \in 1..Len(sent)
      /\ LET d == sent[trace[e].handed]
             b == trace[e].call
         IN /\ d.closed
            /\ d.buf = trace[e].message
            /\ ~(d.done /\ d.error = Null)
            /\ d.thrown => batches[b].thrown /\ InvocationsOf(b) = {}
            /\ d.done /\ ~d.thrown /\ IsFunction(batches[b].callback) =>
                 \E i \in InvocationsOf(b) : invoked[i].error # Null

(* C16: close changes no field of the client; and after close every send     *)
(* that is not dropped is still handed to the closed socket, no datagram     *)
(* handed to it is ever reported as sent, and what the caller sees is what   *)
(* the closed socket does: its exception, or the error it reports.           *)
C16_NoClosedFlag ==
  [][/\ ~socket.closed /\ socket'.closed => client' = client
     /\ SendsAfterClose']_vars

\* a call made after close handed its datagram to the closed socket, which
\* reported an error that reached the caller's callback
C16_Witness ==
  /\ socket.closed
  /\ \E e \in 1..Len(trace) :
       /\ trace[e].closed
       /\ trace[e].handed \in 1..Len(sent)
       /\ sent[trace[e].handed].done
       /\ sent[trace[e].handed].error = Err(trace[e].handed)
       /\ \E i \in InvocationsOf(trace[e].call) :
            invoked[i].error = Err(trace[e].handed)

-----------------------------------------------------------------------------
\* the sends of the b-th call that sampling dropped
DroppedOf(b) == {e \in SendsOf(b) : trace[e].dropped}

(* C17: in a fan-out over N names at a sample rate below 1, each name has    *)
(* its own send and its own draw, which alone decides whether it is dropped; *)
(* the survivors' datagrams are handed to the socket; the callback is told   *)
(* of success only if no name was dropped and every datagram completed       *)
(* without error; and if a name was dropped and no completion failed, the    *)
(* count of completions stays below N and the callback is not invoked.       *)
C17_DroppedNameSilences ==
  \A b \in Calls :
    IsFanOut(b) /\ Sampled(batches[b].sampleRate) =>
      LET N == Len(batches[b].stat.a)
          sends == SendsOf(b)
          drops == Cardinality(DroppedOf(b))
          reported == InvocationsOf(b)
      IN /\ Cardinality(sends) = N
         /\ \A e \in sends :
              trace[e].dropped = (trace[e].draw >= batches[b].sampleRate.n)
         /\ Transmits(client) => Cardinality(DatagramsOf(b)) = N - drops
         /\ (\E i \in reported : invoked[i].error = Null) =>
              /\ drops = 0
              /\ Transmits(client) => AllSucceeded(b)
         /\ drops > 0 /\ FailuresOf(b) = {} =>
              /\ batches[b].completed < N
              /\ reported = {}

\* of three names one was dropped and two were sent and reported without
\* error, and the callback has not been invoked
C17_Witness ==
  \E b \in Calls :
    /\ IsFanOut(b)
    /\ Len(batches[b].stat.a) = 3
    /\ Cardinality(DroppedOf(b)) = 1
    /\ Cardinality(DatagramsOf(b)) = 2
    /\ \A d \in DatagramsOf(b) : sent[d].done /\ sent[d].error = Null
    /\ batches[b].completed = 2
    /\ InvocationsOf(b) = {}

-----------------------------------------------------------------------------
(* C18: on a mock client, a call over N >= 1 names with a callback and no    *)
(* sampling has, as soon as it has returned, made its N sends, handed        *)
(* nothing to the socket and invoked the callback exactly once, with         *)
(* (null, 0), during the send of the last name and of no earlier one.        *)
C18_MockFanOut ==
  ~Transmits(client) =>
    \A b \in Calls :
      IsFanOut(b) /\ ~Sampled(batches[b].sampleRate) =>
        /\ Cardinality(SendsOf(b)) = Len(batches[b].stat.a)
        /\ DatagramsOf(b) = {}
        /\ Cardinality(InvocationsOf(b)) = 1
        /\ \A i \in InvocationsOf(b) :
             /\ invoked[i].error = Null
             /\ invoked[i].bytes = Whole(0)
             /\ invoked[i].at = Len(batches[b].stat.a)

\* a fan-out over three names on a mock client invoked its callback once,
\* with (null, 0), at the third send
C18_Witness ==
  /\ ~Transmits(client)
  /\ \E b \in Calls :
       /\ IsFanOut(b)
       /\ Len(batches[b].stat.a) = 3
       /\ \E i \in InvocationsOf(b) :
            /\ InvocationsOf(b) = {i}
            /\ invoked[i].error = Null
            /\ invoked[i].bytes = Whole(0)
            /\ invoked[i].at = 3

====
